---------------------------- MODULE Spec2Model ----------------------------
(***************************************************************************)
(* Model of the Cloud Hypervisor device handling of runtime-rs             *)
(* (crates/hypervisor/src/ch/inner_device.rs): the pending-device queue of *)
(* CloudHypervisorInner, its replay after boot, the live attachment of a   *)
(* share-fs device and the translation ShareFsSettings -> FsConfig.        *)
(***************************************************************************)
EXTENDS Integers, Sequences, FiniteSets, TLC

(***************************************************************************)
(* Bounds of the model.                                                    *)
(***************************************************************************)
\* add_device is called at most this many times in a behaviour
MaxRequests == 3
\* a socket path string has at most this many segments between its '/'
MaxSegments == 3

(***************************************************************************)
(* Values.                                                                 *)
(***************************************************************************)
VIRTIO_FS == "virtio-fs"

\* VmmState: only "not running" against VmRunning matters to this code
NotReady == "NotReady"
VmRunning == "VmRunning"
VmmState == {NotReady, VmRunning}

\* Option<T>
None == [some |-> FALSE]
Some(v) == [some |-> TRUE, val |-> v]

\* the unit value ()
Unit == "()"

\* anyhow::Result<T>; an error is its context chain, outermost first, each
\* layer a message and the value the message names ("" when it names none)
Ok(v) == [ok |-> TRUE, val |-> v]
Err(chain) == [ok |-> FALSE, err |-> chain]
E(msg, about) == <<[msg |-> msg, about |-> about]>>
\* anyhow::Context::context
Context(r, c) == IF r.ok THEN r ELSE Err(E(c, "") \o r.err)

(***************************************************************************)
(* Strings that hold paths, and std::path::PathBuf.                        *)
(* A string is the sequence of its segments between '/' characters:        *)
(*   "/abs/sock" is <<"", "abs", "sock">>, "rel/sock" is <<"rel", "sock">>,*)
(*   "" is <<"">>.                                                         *)
(* A PathBuf is the sequence of its components; "/" is the root component. *)
(* Two PathBufs are equal when their components are.                       *)
(***************************************************************************)
\* str::starts_with('/')
StartsWithSlash(s) == Len(s) >= 2 /\ s[1] = ""

NormalComponent(c) == c # "" /\ c # "."

\* PathBuf::from(String): repeated separators and inner "." vanish, a leading
\* "." and every ".." stay
PathBufFrom(s) ==
    IF StartsWithSlash(s) THEN <<"/">> \o SelectSeq(Tail(s), NormalComponent)
    ELSE IF s[1] = "." THEN <<".">> \o SelectSeq(Tail(s), NormalComponent)
    ELSE SelectSeq(s, NormalComponent)

\* PathBuf::join: an absolute argument replaces the base, a relative one is
\* appended component by component, nothing is resolved
PathBufJoin(base, p) ==
    IF p # <<>> /\ p[1] = "/" THEN p
    ELSE base \o SelectSeq(p, NormalComponent)

\* safe_path::scoped_join resolves the unsafe path below root: ".." never
\* climbs above root
RECURSIVE ScopedResolve(_, _)
ScopedResolve(sub, comps) ==
    IF comps = <<>> THEN sub
    ELSE LET c == Head(comps)
             nsub == IF c = ".."
                       THEN (IF sub = <<>> THEN <<>>
                             ELSE SubSeq(sub, 1, Len(sub) - 1))
                     ELSE IF c \in {"/", "."} THEN sub
                     ELSE Append(sub, c)
         IN  ScopedResolve(nsub, Tail(comps))

ScopedJoin(root, unsafe_path) ==
    PathBufFrom(root) \o ScopedResolve(<<>>, PathBufFrom(unsafe_path))

(***************************************************************************)
(* Device requests.                                                        *)
(***************************************************************************)
ShareFsDevice(cfg) == [kind |-> "ShareFsDevice", cfg |-> cfg]
HybridVsock == [kind |-> "HybridVsock"]
\* a device kind handle_add_device has no arm for
BlockDevice == [kind |-> "Block"]

ShareFsDeviceConfig(fs_type, sock_path, queue_num, queue_size) ==
    [fs_type |-> fs_type, mount_tag |-> "kataShared", sock_path |-> sock_path,
     queue_num |-> queue_num, queue_size |-> queue_size]

\* mutant: the range check is off by one
U16TryFromOffByOne(n) ==
    IF n <= 65536 THEN Ok(n) ELSE Err(E("TryFromIntError", ""))

\* u16::try_from(u64)
U16TryFrom(n) ==
    IF n <= 65535 THEN Ok(n) ELSE Err(E("TryFromIntError", ""))

(***************************************************************************)
(* impl TryFrom<ShareFsSettings> for FsConfig                              *)
(***************************************************************************)
ShareFsSettingsNew(cfg, vm_path) == [cfg |-> cfg, vm_path |-> vm_path]

\* u64 as usize keeps the value on the 64-bit targets of the runtime
TryFromNumQueues(cfg) ==
    IF cfg.queue_num > 0 THEN cfg.queue_num ELSE 1

TryFromQueueSize(cfg) ==
    IF cfg.queue_num > 0 THEN U16TryFrom(cfg.queue_size) ELSE Ok(1024)

TryFromSocketPath(cfg, vm_path) ==
    IF StartsWithSlash(cfg.sock_path) THEN PathBufFrom(cfg.sock_path)
    ELSE PathBufJoin(PathBufFrom(vm_path), PathBufFrom(cfg.sock_path))

\* mutant: the translation refuses what the live handler refuses
FsConfigTryFromChecksType(settings) ==
    LET cfg == settings.cfg
        queue_size == TryFromQueueSize(cfg)
    IN  IF cfg.fs_type # VIRTIO_FS
          THEN Err(E("cannot handle share fs type", cfg.fs_type))
        ELSE IF ~queue_size.ok THEN Err(queue_size.err)
        ELSE Ok([tag |-> cfg.mount_tag,
                 socket |-> TryFromSocketPath(cfg, settings.vm_path),
                 num_queues |-> TryFromNumQueues(cfg),
                 queue_size |-> queue_size.val])

FsConfigTryFrom(settings) ==
    LET cfg == settings.cfg
        queue_size == TryFromQueueSize(cfg)
    IN  IF ~queue_size.ok THEN Err(queue_size.err)
        ELSE Ok([tag |-> cfg.mount_tag,
                 socket |-> TryFromSocketPath(cfg, settings.vm_path),
                 num_queues |-> TryFromNumQueues(cfg),
                 queue_size |-> queue_size.val])

(***************************************************************************)
(* The live attachment handler.  ext is what the collaborators do in this  *)
(* call: "ok", or scoped_join fails ("join_err"), or the socket cannot be  *)
(* cloned ("clone_err"), or cloud_hypervisor_vm_fs_add fails ("api_err").  *)
(* The result is what the handler returns and the calls it made to         *)
(* cloud_hypervisor_vm_fs_add.                                             *)
(***************************************************************************)
ExtOutcomes == {"ok", "join_err", "clone_err", "api_err"}

HandleNumQueues(cfg) ==
    IF cfg.queue_num > 0 THEN cfg.queue_num ELSE 1

\* mutant: the default is chosen on queue_size, not on queue_num
HandleQueueSizeOwnDefault(cfg) ==
    IF cfg.queue_size > 0 THEN U16TryFrom(cfg.queue_size) ELSE Ok(1024)

HandleQueueSize(cfg) ==
    IF cfg.queue_num > 0 THEN U16TryFrom(cfg.queue_size) ELSE Ok(1024)

HandleSocketPath(cfg, vm_path, ext) ==
    IF StartsWithSlash(cfg.sock_path) THEN Ok(PathBufFrom(cfg.sock_path))
    ELSE IF ext = "join_err" THEN Err(E("scoped_join", ""))
    ELSE Ok(ScopedJoin(vm_path, cfg.sock_path))

\* mutant: the socket is looked up before the filesystem type is checked
HandleShareFsDeviceSocketFirst(cfg, api_sock, vm_path, ext) ==
    LET queue_size == HandleQueueSize(cfg)
        socket_path == HandleSocketPath(cfg, vm_path, ext)
        fs_config == [tag |-> cfg.mount_tag,
                      socket |-> socket_path.val,
                      num_queues |-> HandleNumQueues(cfg),
                      queue_size |-> queue_size.val]
    IN  IF ~api_sock
          THEN [res |-> Err(E("missing socket", "")), calls |-> <<>>]
        ELSE IF ~queue_size.ok
          THEN [res |-> Err(queue_size.err), calls |-> <<>>]
        ELSE IF ~socket_path.ok
          THEN [res |-> Err(socket_path.err), calls |-> <<>>]
        ELSE IF ext = "clone_err"
          THEN [res |-> Err(E("failed to clone socket", "")), calls |-> <<>>]
        ELSE IF ext = "api_err"
          THEN [res |-> Err(E("vm_fs_add", "")), calls |-> <<fs_config>>]
        ELSE IF cfg.fs_type # VIRTIO_FS
          THEN [res |-> Err(E("cannot handle share fs type", cfg.fs_type)),
                calls |-> <<fs_config>>]
        ELSE [res |-> Ok(Unit), calls |-> <<fs_config>>]

HandleShareFsDevice(cfg, api_sock, vm_path, ext) ==
    LET queue_size == HandleQueueSize(cfg)
        socket_path == HandleSocketPath(cfg, vm_path, ext)
        fs_config == [tag |-> cfg.mount_tag,
                      socket |-> socket_path.val,
                      num_queues |-> HandleNumQueues(cfg),
                      queue_size |-> queue_size.val]
    IN  IF cfg.fs_type # VIRTIO_FS
          THEN [res |-> Err(E("cannot handle share fs type", cfg.fs_type)),
                calls |-> <<>>]
        ELSE IF ~api_sock
          THEN [res |-> Err(E("missing socket", "")), calls |-> <<>>]
        ELSE IF ~queue_size.ok
          THEN [res |-> Err(queue_size.err), calls |-> <<>>]
        ELSE IF ~socket_path.ok
          THEN [res |-> Err(socket_path.err), calls |-> <<>>]
        ELSE IF ext = "clone_err"
          THEN [res |-> Err(E("failed to clone socket", "")), calls |-> <<>>]
        ELSE IF ext = "api_err"
          THEN [res |-> Err(E("vm_fs_add", "")), calls |-> <<fs_config>>]
        ELSE [res |-> Ok(Unit), calls |-> <<fs_config>>]

HandleHvsockDevice == [res |-> Ok(Unit), calls |-> <<>>]

HandleAddDevice(device, api_sock, vm_path, ext) ==
    IF device.kind = "ShareFsDevice"
      THEN HandleShareFsDevice(device.cfg, api_sock, vm_path, ext)
    ELSE IF device.kind = "HybridVsock" THEN HandleHvsockDevice
    ELSE [res |-> Err(E("unhandled device", device.kind)), calls |-> <<>>]


(***************************************************************************)
(* State of CloudHypervisorInner, of the VMM behind the API socket, and    *)
(* the record of the last call.                                            *)
(***************************************************************************)
VARIABLES
    state,            \* self.state
    pending_devices,  \* self.pending_devices: Option<Vec<Device>>
    api_socket,       \* self.api_socket is Some
    vm_path,          \* self.vm_path
    config,           \* self.config: Option<HypervisorConfig>, its boot_info
    next_id,          \* number of add_device calls so far; names each request
    handled,          \* every handle_add_device invocation: request, result
    vmm_calls,        \* every FsConfig sent with cloud_hypervisor_vm_fs_add
    call,             \* the last call: operation, argument, state before, result
    fs_in,            \* translation check: the ShareFsDeviceConfig and its context
    fs_live,          \* translation check: what handle_share_fs_device did with fs_in
    fs_boot           \* translation check: what FsConfig::try_from did with fs_in

vars == <<state, pending_devices, api_socket, vm_path, config, next_id, handled,
          vmm_calls, call, fs_in, fs_live, fs_boot>>

hvVars == <<state, pending_devices, api_socket, vm_path, config, next_id,
            handled, vmm_calls, call>>
fsVars == <<fs_in, fs_live, fs_boot>>

\* a request is a Device value moved into add_device; id tells two equal
\* values apart
Request(id, device) == [id |-> id, dev |-> device]

RelSock == <<"rel", "sock">>
VmPath1 == <<"", "vm", "1">>

\* the devices callers submit in the state machine
Devices ==
    { ShareFsDevice(ShareFsDeviceConfig(VIRTIO_FS, RelSock, 0, 0)),
      ShareFsDevice(ShareFsDeviceConfig("virtio-9p", RelSock, 4, 256)),
      ShareFsDevice(ShareFsDeviceConfig(VIRTIO_FS, RelSock, 1, 65536)),
      HybridVsock,
      BlockDevice }

\* what each collaborator call of one operation does: the request fail_id
\* meets fail_ext, every other one "ok"
ExtOf(fail_id, fail_ext, id) == IF id = fail_id THEN fail_ext ELSE "ok"

Snapshot == [state |-> state, pending |-> pending_devices,
             handled |-> Len(handled), calls |-> Len(vmm_calls)]

(***************************************************************************)
(* CloudHypervisorInner::add_device                                        *)
(***************************************************************************)
\* if let Some(devices) = pending_devices.take() { devices } else { vec![] }
QueueOrEmpty(opt) == IF opt.some THEN opt.val ELSE <<>>

\* Option::take leaves None behind
TakeLeaves(opt) == None

\* mutant: Vec::push instead of insert(0, ..)
InsertBack(devices, device) == devices \o <<device>>

\* Vec::insert(0, device)
InsertFront(devices, device) == <<device>> \o devices

\* mutant: the device kind is checked before the request is queued
AddDeviceChecksKind(st, pend, request, api_sock, path, ext) ==
    IF request.dev.kind \notin {"ShareFsDevice", "HybridVsock"}
      THEN [res |-> Err(E("unhandled device", request.dev.kind)),
            pending |-> pend, handled |-> <<>>, calls |-> <<>>]
    ELSE IF st # VmRunning
      THEN [res |-> Ok(Unit),
            pending |-> Some(<<request>> \o QueueOrEmpty(pend)),
            handled |-> <<>>, calls |-> <<>>]
    ELSE LET h == HandleAddDevice(request.dev, api_sock, path, ext)
         IN  [res |-> h.res, pending |-> pend,
              handled |-> <<[req |-> request, res |-> h.res]>>,
              calls |-> h.calls]

\* the effect of add_device(request) in state st with queue pend: the result,
\* the queue afterwards, the handle_add_device invocations and the VMM calls
AddDeviceEffect(st, pend, request, api_sock, path, ext) ==
    IF st # VmRunning
      THEN LET devices == QueueOrEmpty(pend)
           IN  [res |-> Ok(Unit),
                pending |-> Some(InsertFront(devices, request)),
                handled |-> <<>>, calls |-> <<>>]
    ELSE LET h == HandleAddDevice(request.dev, api_sock, path, ext)
         IN  [res |-> h.res, pending |-> pend,
              handled |-> <<[req |-> request, res |-> h.res]>>,
              calls |-> h.calls]

add_device(device, ext) ==
    /\ next_id < MaxRequests
    /\ LET request == Request(next_id + 1, device)
           eff == AddDeviceEffect(state, pending_devices, request,
                                  api_socket, vm_path, ext)
       IN  /\ pending_devices' = eff.pending
           /\ handled' = handled \o eff.handled
           /\ vmm_calls' = vmm_calls \o eff.calls
           /\ call' = [op |-> "add_device", req |-> request,
                       pre |-> Snapshot, ret |-> eff.res]
    /\ next_id' = next_id + 1
    /\ UNCHANGED <<state, api_socket, vm_path, config, fsVars>>

(***************************************************************************)
(* CloudHypervisorInner::handle_pending_devices_after_boot                 *)
(***************************************************************************)
\* mutant: Vec::remove(0) instead of pop
PopFirst(devices) == [dev |-> Head(devices), rest |-> Tail(devices)]

\* Vec::pop: the last element, and the vector without it
Pop(devices) ==
    [dev |-> devices[Len(devices)],
     rest |-> SubSeq(devices, 1, Len(devices) - 1)]

\* mutant: the queue is cloned, not taken
ReplayClone(opt) == opt

ReplayTake(opt) == TakeLeaves(opt)

\* mutant: a failed add_device does not end the loop
RECURSIVE ReplayLoopGoesOn(_, _, _, _, _, _, _)
ReplayLoopGoesOn(devices, st, pend, api_sock, path, fail_id, fail_ext) ==
    IF devices = <<>>
      THEN [res |-> Ok(Unit), pending |-> pend, handled |-> <<>>, calls |-> <<>>]
    ELSE LET dev == devices[Len(devices)]
             eff == AddDeviceEffect(st, pend, dev, api_sock, path,
                                    ExtOf(fail_id, fail_ext, dev.id))
             t == ReplayLoopGoesOn(SubSeq(devices, 1, Len(devices) - 1), st,
                                   eff.pending, api_sock, path, fail_id, fail_ext)
         IN  [res |-> IF eff.res.ok THEN t.res ELSE Context(eff.res, "add_device"),
              pending |-> t.pending,
              handled |-> eff.handled \o t.handled,
              calls |-> eff.calls \o t.calls]

\* mutant: a failed replay stores the requests it did not reach
RECURSIVE ReplayLoopPutsBack(_, _, _, _, _, _, _)
ReplayLoopPutsBack(devices, st, pend, api_sock, path, fail_id, fail_ext) ==
    IF devices = <<>>
      THEN [res |-> Ok(Unit), pending |-> pend, handled |-> <<>>, calls |-> <<>>]
    ELSE LET dev == devices[Len(devices)]
             rest == SubSeq(devices, 1, Len(devices) - 1)
             eff == AddDeviceEffect(st, pend, dev, api_sock, path,
                                    ExtOf(fail_id, fail_ext, dev.id))
         IN  IF ~eff.res.ok
               THEN [res |-> Context(eff.res, "add_device"),
                     pending |-> IF rest = <<>> THEN eff.pending ELSE Some(rest),
                     handled |-> eff.handled, calls |-> eff.calls]
             ELSE LET t == ReplayLoopPutsBack(rest, st, eff.pending, api_sock,
                                              path, fail_id, fail_ext)
                  IN  [res |-> t.res, pending |-> t.pending,
                       handled |-> eff.handled \o t.handled,
                       calls |-> eff.calls \o t.calls]

\* while let Some(dev) = devices.pop() { self.add_device(dev)? }
\* with self.pending_devices = pend while the loop runs
RECURSIVE ReplayLoop(_, _, _, _, _, _, _)
ReplayLoop(devices, st, pend, api_sock, path, fail_id, fail_ext) ==
    IF devices = <<>>
      THEN [res |-> Ok(Unit), pending |-> pend, handled |-> <<>>, calls |-> <<>>]
    ELSE LET p == Pop(devices)
             eff == AddDeviceEffect(st, pend, p.dev, api_sock, path,
                                    ExtOf(fail_id, fail_ext, p.dev.id))
         IN  IF ~eff.res.ok
               THEN [res |-> Context(eff.res, "add_device"),
                     pending |-> eff.pending,
                     handled |-> eff.handled, calls |-> eff.calls]
             ELSE LET t == ReplayLoop(p.rest, st, eff.pending, api_sock, path,
                                      fail_id, fail_ext)
                  IN  [res |-> t.res, pending |-> t.pending,
                       handled |-> eff.handled \o t.handled,
                       calls |-> eff.calls \o t.calls]

\* mutant: the queue is taken before the state is checked
HandlePendingTakesFirst(st, pend, api_sock, path, fail_id, fail_ext) ==
    IF st # VmRunning
      THEN [res |-> Err(E("cannot handle pending devices with VMM state", st)),
            pending |-> None, handled |-> <<>>, calls |-> <<>>]
    ELSE ReplayLoop(QueueOrEmpty(pend), st, None, api_sock, path,
                    fail_id, fail_ext)

HandlePendingEffect(st, pend, api_sock, path, fail_id, fail_ext) ==
    IF st # VmRunning
      THEN [res |-> Err(E("cannot handle pending devices with VMM state", st)),
            pending |-> pend, handled |-> <<>>, calls |-> <<>>]
    ELSE IF pend.some
      THEN ReplayLoop(pend.val, st, ReplayTake(pend), api_sock, path,
                      fail_id, fail_ext)
    ELSE [res |-> Ok(Unit), pending |-> ReplayTake(pend),
          handled |-> <<>>, calls |-> <<>>]

\* mutant: the replay marks the machine running instead of refusing
handle_pending_marks_running(fail_id, fail_ext) ==
    /\ LET eff == HandlePendingEffect(VmRunning, pending_devices, api_socket,
                                      vm_path, fail_id, fail_ext)
       IN  /\ pending_devices' = eff.pending
           /\ handled' = handled \o eff.handled
           /\ vmm_calls' = vmm_calls \o eff.calls
           /\ call' = [op |-> "handle_pending_devices_after_boot",
                       req |-> Request(0, HybridVsock),
                       pre |-> Snapshot, ret |-> eff.res]
    /\ state' = VmRunning
    /\ UNCHANGED <<api_socket, vm_path, config, next_id, fsVars>>

handle_pending_devices_after_boot(fail_id, fail_ext) ==
    /\ LET eff == HandlePendingEffect(state, pending_devices, api_socket,
                                      vm_path, fail_id, fail_ext)
       IN  /\ pending_devices' = eff.pending
           /\ handled' = handled \o eff.handled
           /\ vmm_calls' = vmm_calls \o eff.calls
           /\ call' = [op |-> "handle_pending_devices_after_boot",
                       req |-> Request(0, HybridVsock),
                       pre |-> Snapshot, ret |-> eff.res]
    /\ UNCHANGED <<state, api_socket, vm_path, config, next_id, fsVars>>

(***************************************************************************)
(* CloudHypervisorInner::remove_device                                     *)
(***************************************************************************)
\* mutant: the request is taken out of the queue
remove_device_unqueues(request) ==
    /\ pending_devices' =
           IF pending_devices.some
             THEN Some(SelectSeq(pending_devices.val, LAMBDA r : r # request))
             ELSE None
    /\ call' = [op |-> "remove_device", req |-> request,
                pre |-> Snapshot, ret |-> Ok(Unit)]
    /\ UNCHANGED <<state, api_socket, vm_path, config, next_id,
                   handled, vmm_calls, fsVars>>

remove_device(request) ==
    /\ call' = [op |-> "remove_device", req |-> request,
                pre |-> Snapshot, ret |-> Ok(Unit)]
    /\ UNCHANGED <<state, pending_devices, api_socket, vm_path, config, next_id,
                   handled, vmm_calls, fsVars>>

(***************************************************************************)
(* CloudHypervisorInner::get_shared_fs_devices                             *)
(***************************************************************************)
\* mutant: the queue is cloned, not taken
SharedFsClone(opt) == opt

SharedFsTake(opt) == TakeLeaves(opt)

\* mutant: each config is inserted at the front of root_devices
RECURSIVE RootDevicesInsertFront(_, _)
RootDevicesInsertFront(devices, path) ==
    IF devices = <<>> THEN Ok(<<>>)
    ELSE LET dev == Head(devices).dev
         IN  IF dev.kind = "ShareFsDevice"
               THEN LET fs_cfg == FsConfigTryFrom(ShareFsSettingsNew(dev.cfg, path))
                    IN  IF ~fs_cfg.ok THEN Err(fs_cfg.err)
                        ELSE LET rest == RootDevicesInsertFront(Tail(devices), path)
                             IN  IF rest.ok THEN Ok(rest.val \o <<fs_cfg.val>>)
                                 ELSE rest
             ELSE RootDevicesInsertFront(Tail(devices), path)

\* for dev in devices { match dev { ShareFsDevice => push(try_from?), _ => continue } }
RECURSIVE RootDevices(_, _)
RootDevices(devices, path) ==
    IF devices = <<>> THEN Ok(<<>>)
    ELSE LET dev == Head(devices).dev
         IN  IF dev.kind = "ShareFsDevice"
               THEN LET fs_cfg == FsConfigTryFrom(ShareFsSettingsNew(dev.cfg, path))
                    IN  IF ~fs_cfg.ok THEN Err(fs_cfg.err)
                        ELSE LET rest == RootDevices(Tail(devices), path)
                             IN  IF rest.ok THEN Ok(<<fs_cfg.val>> \o rest.val)
                                 ELSE rest
             ELSE RootDevices(Tail(devices), path)

\* mutant: the requests that are not share-fs stay in the queue
GetSharedFsDevicesKeepsOthers(pend, path) ==
    [pending |-> IF pend.some
                   THEN Some(SelectSeq(pend.val,
                                       LAMBDA r : r.dev.kind # "ShareFsDevice"))
                   ELSE None,
     res |-> IF pend.some
               THEN LET r == RootDevices(pend.val, path)
                    IN  IF r.ok THEN Ok(Some(r.val)) ELSE r
             ELSE Ok(None)]

GetSharedFsDevicesEffect(pend, path) ==
    [pending |-> SharedFsTake(pend),
     res |-> IF pend.some
               THEN LET r == RootDevices(pend.val, path)
                    IN  IF r.ok THEN Ok(Some(r.val)) ELSE r
             ELSE Ok(None)]

get_shared_fs_devices ==
    /\ LET eff == GetSharedFsDevicesEffect(pending_devices, vm_path)
       IN  /\ pending_devices' = eff.pending
           /\ call' = [op |-> "get_shared_fs_devices",
                       req |-> Request(0, HybridVsock),
                       pre |-> Snapshot, ret |-> eff.res]
    /\ UNCHANGED <<state, api_socket, vm_path, config, next_id, handled,
                   vmm_calls, fsVars>>

(***************************************************************************)
(* CloudHypervisorInner::get_boot_file and get_pmem_devices                *)
(***************************************************************************)
\* String::is_empty
IsEmpty(s) == s = <<"">>

\* a HypervisorConfig, as far as this code reads it
HypervisorConfig(initrd, image) == [boot_info |-> [initrd |-> initrd, image |-> image]]

\* mutant: the image is preferred to the initrd
GetBootFilePrefersImage(cfg) ==
    IF cfg.some
      THEN LET boot_info == cfg.val.boot_info
           IN  IF ~IsEmpty(boot_info.image) THEN Ok(PathBufFrom(boot_info.image))
               ELSE IF ~IsEmpty(boot_info.initrd)
                 THEN Ok(PathBufFrom(boot_info.initrd))
               ELSE Err(E("missing boot file (no image or initrd)", ""))
    ELSE Err(E("no hypervisor config", ""))

GetBootFile(cfg) ==
    IF cfg.some
      THEN LET boot_info == cfg.val.boot_info
           IN  IF ~IsEmpty(boot_info.initrd) THEN Ok(PathBufFrom(boot_info.initrd))
               ELSE IF ~IsEmpty(boot_info.image)
                 THEN Ok(PathBufFrom(boot_info.image))
               ELSE Err(E("missing boot file (no image or initrd)", ""))
    ELSE Err(E("no hypervisor config", ""))

\* mutant: the boot image is mapped writable
PmemConfigWritable(file) ==
    [file |-> file, size |-> None, iommu |-> FALSE, discard_writes |-> FALSE,
     id |-> None, pci_segment |-> 0]

PmemConfig(file) ==
    [file |-> file, size |-> None, iommu |-> FALSE, discard_writes |-> TRUE,
     id |-> None, pci_segment |-> 0]

GetPmemDevices(cfg) ==
    LET file == GetBootFile(cfg)
    IN  IF ~file.ok THEN Err(file.err) ELSE Ok(Some(<<PmemConfig(file.val)>>))

get_boot_file ==
    /\ call' = [op |-> "get_boot_file", req |-> Request(0, HybridVsock),
                pre |-> Snapshot, ret |-> GetBootFile(config)]
    /\ UNCHANGED <<state, pending_devices, api_socket, vm_path, config, next_id,
                   handled, vmm_calls, fsVars>>

get_pmem_devices ==
    /\ call' = [op |-> "get_pmem_devices", req |-> Request(0, HybridVsock),
                pre |-> Snapshot, ret |-> GetPmemDevices(config)]
    /\ UNCHANGED <<state, pending_devices, api_socket, vm_path, config, next_id,
                   handled, vmm_calls, fsVars>>

(***************************************************************************)
(* The VMM lifecycle, outside this code: the machine starts running.       *)
(***************************************************************************)
VmStarts ==
    /\ state = NotReady
    /\ state' = VmRunning
    /\ UNCHANGED <<pending_devices, api_socket, vm_path, config, next_id,
                   handled, vmm_calls, call, fsVars>>

(***************************************************************************)
(* The state machine.                                                      *)
(***************************************************************************)
\* the hypervisor configurations: none, or one with each of initrd and image
\* set or empty
Initrd == <<"", "boot", "initrd.img">>
Image == <<"", "boot", "vmlinuz">>
Configs ==
    {None} \cup {Some(HypervisorConfig(initrd, image)) :
                    initrd \in {<<"">>, Initrd}, image \in {<<"">>, Image}}

NoFsIn == [cfg |-> ShareFsDeviceConfig(VIRTIO_FS, RelSock, 0, 0), ext |-> "ok"]

Init ==
    /\ state = NotReady
    /\ pending_devices = None
    /\ api_socket \in BOOLEAN
    /\ vm_path = VmPath1
    /\ config = None
    /\ next_id = 0
    /\ handled = <<>>
    /\ vmm_calls = <<>>
    /\ call = [op |-> "new", req |-> Request(0, HybridVsock),
               pre |-> [state |-> NotReady, pending |-> None,
                        handled |-> 0, calls |-> 0],
               ret |-> Ok(Unit)]
    /\ fs_in = NoFsIn
    /\ fs_live = None
    /\ fs_boot = None

QueuedRequests == IF pending_devices.some
                    THEN {pending_devices.val[i] : i \in DOMAIN pending_devices.val}
                  ELSE {}

QueuedIds == {r.id : r \in QueuedRequests}

\* the collaborators are reached only while the machine is running
ExtReachable == IF state = VmRunning THEN ExtOutcomes ELSE {"ok"}

AddDevice == \E device \in Devices, ext \in ExtReachable : add_device(device, ext)

\* no collaborator call of the replay fails (fail_id 0), or that of one queued
\* request does
ReplayFailures ==
    {<<0, "ok">>} \cup ({id \in QueuedIds : state = VmRunning} \X (ExtOutcomes \ {"ok"}))

Replay == \E f \in ReplayFailures : handle_pending_devices_after_boot(f[1], f[2])

\* remove_device is given a queued request, or a device never submitted
RemoveDevice ==
    \E request \in QueuedRequests \cup {Request(0, d) : d \in {HybridVsock, BlockDevice}} :
        remove_device(request)

Next ==
    \/ AddDevice
    \/ Replay
    \/ RemoveDevice
    \/ get_shared_fs_devices
    \/ get_boot_file
    \/ get_pmem_devices
    \/ VmStarts

Spec == Init /\ [][Next]_vars

(***************************************************************************)
(* The same operations with a hypervisor configuration: the configuration  *)
(* is any of Configs, and callers submit two kinds of device, one the live *)
(* handler attaches and one it rejects.                                    *)
(***************************************************************************)
BootDevices ==
    { ShareFsDevice(ShareFsDeviceConfig(VIRTIO_FS, RelSock, 0, 0)),
      BlockDevice }

InitBoot ==
    /\ state = NotReady
    /\ pending_devices = None
    /\ api_socket \in BOOLEAN
    /\ vm_path = VmPath1
    /\ config \in Configs
    /\ next_id = 0
    /\ handled = <<>>
    /\ vmm_calls = <<>>
    /\ call = [op |-> "new", req |-> Request(0, HybridVsock),
               pre |-> [state |-> NotReady, pending |-> None,
                        handled |-> 0, calls |-> 0],
               ret |-> Ok(Unit)]
    /\ fs_in = NoFsIn
    /\ fs_live = None
    /\ fs_boot = None

AddBootDevice ==
    \E device \in BootDevices, ext \in ExtReachable : add_device(device, ext)

NextBoot ==
    \/ AddBootDevice
    \/ Replay
    \/ RemoveDevice
    \/ get_shared_fs_devices
    \/ get_boot_file
    \/ get_pmem_devices
    \/ VmStarts

SpecBoot == InitBoot /\ [][NextBoot]_vars

(***************************************************************************)
(* The queue and its two drains alone: add_device, the replay,             *)
(* get_shared_fs_devices and the start of the machine.                     *)
(***************************************************************************)
NextDrain ==
    \/ AddBootDevice
    \/ Replay
    \/ get_shared_fs_devices
    \/ VmStarts

SpecDrain == Init /\ [][NextDrain]_vars

(***************************************************************************)
(* The two translations of one ShareFsDeviceConfig, side by side: the      *)
(* inputs are drawn by InitFs, handle_share_fs_device (with the API socket *)
(* present) and FsConfig::try_from are each applied once.                  *)
(***************************************************************************)
Segments == {"", "..", "rel", "sock"}

SockPaths == UNION {[1..n -> Segments] : n \in 1..MaxSegments}

FsTypes == {VIRTIO_FS, "virtio-9p"}
QueueNums == {0, 1, 4}
QueueSizes == {0, 1, 256, 1024, 65535, 65536}
VmPaths == {VmPath1, <<"", "vm">>}

InitFs ==
    /\ state = VmRunning
    /\ pending_devices = None
    /\ api_socket = TRUE
    /\ vm_path \in VmPaths
    /\ config = None
    /\ next_id = 0
    /\ handled = <<>>
    /\ vmm_calls = <<>>
    /\ call = [op |-> "new", req |-> Request(0, HybridVsock),
               pre |-> [state |-> NotReady, pending |-> None,
                        handled |-> 0, calls |-> 0],
               ret |-> Ok(Unit)]
    /\ \E fs_type \in FsTypes, sock_path \in SockPaths, queue_num \in QueueNums,
          queue_size \in QueueSizes, ext \in ExtOutcomes :
          fs_in = [cfg |-> ShareFsDeviceConfig(fs_type, sock_path, queue_num,
                                               queue_size),
                   ext |-> ext]
    /\ fs_live = None
    /\ fs_boot = None

FsHandleLive ==
    /\ ~fs_live.some
    /\ fs_live' = Some(HandleShareFsDevice(fs_in.cfg, api_socket, vm_path,
                                           fs_in.ext))
    /\ UNCHANGED <<hvVars, fs_in, fs_boot>>

FsTryFrom ==
    /\ ~fs_boot.some
    /\ fs_boot' = Some(FsConfigTryFrom(ShareFsSettingsNew(fs_in.cfg, vm_path)))
    /\ UNCHANGED <<hvVars, fs_in, fs_live>>

NextFs ==
    \/ FsHandleLive
    \/ FsTryFrom

SpecFs == InitFs /\ [][NextFs]_vars

(***************************************************************************)
(* Vocabulary of the properties.  call.pre is the state in which the last  *)
(* call started, so what the call did is the difference to the state now.  *)
(***************************************************************************)
IdsOf(requests) == [i \in DOMAIN requests |-> requests[i].id]

Reverse(s) == [i \in DOMAIN s |-> s[Len(s) + 1 - i]]

IsPrefix(a, b) == Len(a) <= Len(b) /\ a = SubSeq(b, 1, Len(a))

StrictlyAscending(s) == \A i \in DOMAIN s : \A j \in DOMAIN s : i < j => s[i] < s[j]

\* the queue as a sequence: empty when absent
QueueOf(opt) == IF opt.some THEN opt.val ELSE <<>>

\* the handle_add_device invocations and the VMM calls of the last call
NewHandled == SubSeq(handled, call.pre.handled + 1, Len(handled))
NewCalls == SubSeq(vmm_calls, call.pre.calls + 1, Len(vmm_calls))

NoExternalEffect == Len(vmm_calls) = call.pre.calls /\ Len(handled) = call.pre.handled

\* the last call was a replay that passed its state check
ReplayRan ==
    /\ call.op = "handle_pending_devices_after_boot"
    /\ call.pre.state = VmRunning

IsError(res, msg) == ~res.ok /\ res.err[1].msg = msg

(***************************************************************************)
(* C1, as stated: a replay while running hands the queued requests to the  *)
(* live attachment handler last-inserted first (C, B, A): front of the     *)
(* queue first.                                                            *)
(***************************************************************************)
C1_ReplayLastInsertedFirst ==
    (ReplayRan /\ call.pre.pending.some) =>
        /\ IsPrefix(IdsOf([i \in DOMAIN NewHandled |-> NewHandled[i].req]),
                    IdsOf(call.pre.pending.val))
        /\ call.ret.ok => Len(NewHandled) = Len(call.pre.pending.val)

(***************************************************************************)
(* C1, amended: a replay while running hands the queued requests to the    *)
(* live attachment handler in the order of their arrival (A, B, C): the    *)
(* back of the queue first, ids ascending; all of them when it succeeds,   *)
(* up to the first failing one when it fails.                              *)
(***************************************************************************)
C1_ReplayInArrivalOrder ==
    (ReplayRan /\ call.pre.pending.some) =>
        LET new == IdsOf([i \in DOMAIN NewHandled |-> NewHandled[i].req])
        IN  /\ IsPrefix(new, Reverse(IdsOf(call.pre.pending.val)))
            /\ StrictlyAscending(new)
            /\ call.ret.ok => Len(new) = Len(call.pre.pending.val)
            /\ ~call.ret.ok => /\ new # <<>>
                               /\ ~NewHandled[Len(NewHandled)].res.ok

\* three requests were queued and one replay handed all three over
C1_Witness ==
    /\ ReplayRan
    /\ call.ret.ok
    /\ call.pre.pending.some
    /\ Len(call.pre.pending.val) = 3
    /\ IdsOf([i \in DOMAIN NewHandled |-> NewHandled[i].req]) = <<1, 2, 3>>

(***************************************************************************)
(* C2: add_device while the machine is not running returns Ok, invokes no  *)
(* handler and makes no VMM call, and puts the request at the front of the *)
(* queue (created when absent); so while NotReady the queue holds the      *)
(* requests submitted since it was last taken, latest first.               *)
(***************************************************************************)
C2_QueueingBeforeBoot ==
    /\ (call.op = "add_device" /\ call.pre.state # VmRunning) =>
          /\ call.ret = Ok(Unit)
          /\ NoExternalEffect
          /\ pending_devices = Some(<<call.req>> \o QueueOf(call.pre.pending))
    /\ (state # VmRunning /\ pending_devices.some) =>
          /\ pending_devices.val # <<>>
          /\ \A i \in DOMAIN pending_devices.val :
                pending_devices.val[i].id = next_id + 1 - i

\* a third request of an unhandled kind went in front of two queued ones
C2_Witness ==
    /\ call.op = "add_device"
    /\ call.pre.state = NotReady
    /\ state = NotReady
    /\ call.req.dev = BlockDevice
    /\ pending_devices.some
    /\ IdsOf(pending_devices.val) = <<3, 2, 1>>

(***************************************************************************)
(* C3: handle_pending_devices_after_boot while the machine is not running  *)
(* returns the state error, invokes no handler, makes no VMM call and      *)
(* leaves the queue as it was.                                             *)
(***************************************************************************)
C3_ReplayNeedsRunning ==
    (call.op = "handle_pending_devices_after_boot" /\ call.pre.state # VmRunning) =>
        /\ IsError(call.ret, "cannot handle pending devices with VMM state")
        /\ call.ret.err[1].about = call.pre.state
        /\ NoExternalEffect
        /\ pending_devices = call.pre.pending

\* a replay was refused with two requests in the queue
C3_Witness ==
    /\ call.op = "handle_pending_devices_after_boot"
    /\ call.pre.state = NotReady
    /\ ~call.ret.ok
    /\ pending_devices.some
    /\ Len(pending_devices.val) = 2

(***************************************************************************)
(* C4: no request is handed to handle_add_device more than once, every     *)
(* request handed over is one add_device accepted, and no call that starts *)
(* with the machine running leaves the queue longer than it found it.      *)
(***************************************************************************)
C4_AppliedAtMostOnce ==
    /\ \A i \in DOMAIN handled : \A j \in DOMAIN handled :
          i # j => handled[i].req.id # handled[j].req.id
    /\ \A i \in DOMAIN handled : handled[i].req.id \in 1..next_id
    /\ call.pre.state = VmRunning =>
          Len(QueueOf(pending_devices)) <= Len(QueueOf(call.pre.pending))

\* one request was attached directly while running, then a replay handed
\* over two queued ones
C4_Witness ==
    /\ ReplayRan
    /\ call.pre.pending.some
    /\ call.pre.handled = 1
    /\ Len(handled) = 3

(***************************************************************************)
(* C5: a replay while running leaves no queue behind; when it fails, the   *)
(* error is that of the first failing request under the context            *)
(* "add_device", the requests before it in replay order were handed over   *)
(* and succeeded, no request after it was handed over, the VMM received    *)
(* one vm.add-fs call per share-fs device reached and nothing else, and a  *)
(* replay that finds no queue does nothing.                                *)
(***************************************************************************)
C5_ReplayStopsAtFirstFailure ==
    /\ ReplayRan => pending_devices = None
    /\ (ReplayRan /\ ~call.ret.ok) =>
          /\ call.pre.pending.some
          /\ LET queue == call.pre.pending.val
                 n == Len(NewHandled)
             IN  /\ n \in 1..Len(queue)
                 /\ \A i \in 1..n : NewHandled[i].req = queue[Len(queue) + 1 - i]
                 /\ \A i \in 1..(n - 1) : NewHandled[i].res.ok
                 /\ ~NewHandled[n].res.ok
                 /\ call.ret.err = E("add_device", "") \o NewHandled[n].res.err
                 /\ \A k \in 1..(Len(queue) - n) : \A j \in DOMAIN handled :
                       handled[j].req.id # queue[k].id
                 /\ Len(NewCalls) =
                       Cardinality({i \in 1..n :
                           /\ NewHandled[i].req.dev.kind = "ShareFsDevice"
                           /\ \/ NewHandled[i].res.ok
                              \/ IsError(NewHandled[i].res, "vm_fs_add")})
    /\ (ReplayRan /\ ~call.pre.pending.some) =>
          /\ call.ret = Ok(Unit)
          /\ NoExternalEffect

\* of three queued requests the first was attached with a VMM call, the
\* second failed, the third was dropped
C5_Witness ==
    /\ ReplayRan
    /\ ~call.ret.ok
    /\ call.pre.pending.some
    /\ Len(call.pre.pending.val) = 3
    /\ Len(NewHandled) = 2
    /\ Len(NewCalls) = 1
    /\ pending_devices = None

(***************************************************************************)
(* The translation of one ShareFsDeviceConfig by both paths (SpecFs).      *)
(***************************************************************************)
\* both translations of fs_in have run
FsBothRan == fs_live.some /\ fs_boot.some

\* the FsConfig the live path sent to the VMM
FsLiveConfig == fs_live.val.calls[1]

QueuesAsClaimed(c, cfg) ==
    /\ c.num_queues > 0
    /\ c.queue_size > 0
    /\ cfg.queue_num = 0 => (c.num_queues = 1 /\ c.queue_size = 1024)
    /\ cfg.queue_num # 0 => (c.num_queues = cfg.queue_num /\ c.queue_size = cfg.queue_size)

(***************************************************************************)
(* C6, as stated: every FsConfig produced, by FsConfig::try_from and by    *)
(* handle_share_fs_device, has num_queues > 0 and queue_size > 0; it holds *)
(* the defaults 1 and 1024 when queue_num is 0 and the input values        *)
(* otherwise.                                                              *)
(***************************************************************************)
C6_QueuesAlwaysPositive ==
    /\ (fs_boot.some /\ fs_boot.val.ok) => QueuesAsClaimed(fs_boot.val.val, fs_in.cfg)
    /\ (fs_live.some /\ fs_live.val.calls # <<>>) => QueuesAsClaimed(FsLiveConfig, fs_in.cfg)

(***************************************************************************)
(* C7: for a virtio-fs request, FsConfig::try_from fails exactly when      *)
(* handle_share_fs_device fails with the u16 conversion error, and         *)
(* otherwise every FsConfig the live path sends has the num_queues and     *)
(* queue_size of the translated one: (1, 1024) for queue_num = 0, and      *)
(* (4, 256) for queue_num = 4, queue_size = 256.                           *)
(***************************************************************************)
C7_SameQueuesOnBothPaths ==
    (FsBothRan /\ fs_in.cfg.fs_type = VIRTIO_FS) =>
        LET live == fs_live.val
            boot == fs_boot.val
        IN  /\ ~boot.ok <=> IsError(live.res, "TryFromIntError")
            /\ ~boot.ok => (boot.err = live.res.err /\ live.calls = <<>>)
            /\ (boot.ok /\ live.calls # <<>>) =>
                  /\ FsLiveConfig.num_queues = boot.val.num_queues
                  /\ FsLiveConfig.queue_size = boot.val.queue_size
            /\ (boot.ok /\ fs_in.cfg.queue_num = 0) =>
                  (boot.val.num_queues = 1 /\ boot.val.queue_size = 1024)
            /\ (boot.ok /\ fs_in.cfg.queue_num = 4 /\ fs_in.cfg.queue_size = 256) =>
                  (boot.val.num_queues = 4 /\ boot.val.queue_size = 256)
            /\ live.res.ok => live.calls # <<>>

\* queue_num = 4, queue_size = 256 went through both paths
C7_Witness ==
    /\ FsBothRan
    /\ fs_in.cfg.queue_num = 4
    /\ fs_in.cfg.queue_size = 256
    /\ fs_live.val.res.ok
    /\ FsLiveConfig.num_queues = 4
    /\ FsLiveConfig.queue_size = 256
    /\ fs_boot.val.ok

(***************************************************************************)
(* C8, as stated: whenever both paths resolve the socket path of the same  *)
(* request under the same vm_path, they resolve it to the same PathBuf.    *)
(***************************************************************************)
C8_SameSocketPathOnBothPaths ==
    (FsBothRan /\ fs_boot.val.ok /\ fs_live.val.calls # <<>>) =>
        FsLiveConfig.socket = fs_boot.val.val.socket

(***************************************************************************)
(* C9: add_device of a kind other than ShareFsDevice and HybridVsock fails *)
(* with "unhandled device" naming the kind, without a VMM call and without *)
(* touching the queue, when the machine is running; when it is not, the    *)
(* request is queued whatever its kind.  Such a request fails whenever     *)
(* handle_add_device gets it, which makes the replay return that error;    *)
(* get_shared_fs_devices never fails on it.                                *)
(***************************************************************************)
Unhandled(device) == device.kind \notin {"ShareFsDevice", "HybridVsock"}

C9_KindCheckedOnlyWhenApplied ==
    /\ (call.op = "add_device" /\ call.pre.state = VmRunning /\ Unhandled(call.req.dev)) =>
          /\ IsError(call.ret, "unhandled device")
          /\ call.ret.err[1].about = call.req.dev.kind
          /\ Len(vmm_calls) = call.pre.calls
          /\ pending_devices = call.pre.pending
    /\ (call.op = "add_device" /\ call.pre.state # VmRunning) =>
          /\ call.ret.ok
          /\ pending_devices.some
          /\ Head(pending_devices.val) = call.req
    /\ \A i \in DOMAIN handled :
          Unhandled(handled[i].req.dev) => IsError(handled[i].res, "unhandled device")
    /\ (ReplayRan /\ NewHandled # <<>>
          /\ Unhandled(NewHandled[Len(NewHandled)].req.dev)) =>
          call.ret = Err(E("add_device", "")
                         \o E("unhandled device", NewHandled[Len(NewHandled)].req.dev.kind))
    /\ (call.op = "get_shared_fs_devices" /\ ~call.ret.ok) =>
          IsError(call.ret, "TryFromIntError")

\* a request of an unhandled kind was queued behind an older one and failed
\* in the replay after the older one had succeeded
C9_Witness ==
    /\ ReplayRan
    /\ Len(NewHandled) = 2
    /\ NewHandled[1].res.ok
    /\ NewHandled[2].req.dev = BlockDevice
    /\ IsError(call.ret, "add_device")
    /\ call.ret.err[2].msg = "unhandled device"

(***************************************************************************)
(* C10: every get_shared_fs_devices call, successful or failed, leaves no  *)
(* queue behind and reaches neither a handler nor the VMM; a call that     *)
(* finds no queue returns Ok(None), one that finds a queue returns         *)
(* Ok(Some(..)) or the conversion error.  So a second call in a row        *)
(* returns Ok(None).                                                       *)
(***************************************************************************)
C10_SharedFsDestructiveRead ==
    call.op = "get_shared_fs_devices" =>
        /\ pending_devices = None
        /\ NoExternalEffect
        /\ ~call.pre.pending.some => call.ret = Ok(None)
        /\ call.pre.pending.some =>
              /\ call.ret.ok => call.ret.val.some
              /\ ~call.ret.ok => IsError(call.ret, "TryFromIntError")

\* requests were queued, none was replayed, and a get_shared_fs_devices call
\* found the queue already taken
C10_Witness ==
    /\ call.op = "get_shared_fs_devices"
    /\ call.pre.pending = None
    /\ call.ret = Ok(None)
    /\ state = NotReady
    /\ next_id >= 2
    /\ handled = <<>>

(***************************************************************************)
(* C11.  The share-fs requests of the queue a get_shared_fs_devices call   *)
(* found, front first, and the translation of each.                        *)
(***************************************************************************)
IsShareFs(request) == request.dev.kind = "ShareFsDevice"

FoundShareFs == SelectSeq(QueueOf(call.pre.pending), IsShareFs)

TranslationOf(request) == FsConfigTryFrom(ShareFsSettingsNew(request.dev.cfg, vm_path))

(***************************************************************************)
(* C11, as stated: get_shared_fs_devices, in either machine state, removes *)
(* the queue and returns Ok(None) exactly when there was none, and         *)
(* otherwise Ok(Some(..)) of one translated config per queued share-fs     *)
(* request, in queue order (empty when the queue held no share-fs          *)
(* request).                                                               *)
(***************************************************************************)
C11_SharedFsReturnsEveryShareFs ==
    call.op = "get_shared_fs_devices" =>
        /\ pending_devices = None
        /\ call.ret.ok
        /\ call.ret.val.some <=> call.pre.pending.some
        /\ call.ret.val.some =>
              /\ Len(call.ret.val.val) = Len(FoundShareFs)
              /\ \A i \in DOMAIN FoundShareFs :
                    /\ TranslationOf(FoundShareFs[i]).ok
                    /\ call.ret.val.val[i] = TranslationOf(FoundShareFs[i]).val

(***************************************************************************)
(* C11, amended: the same, when every queued share-fs request translates;  *)
(* when the translation of one of them fails, the call returns that        *)
(* conversion error instead of a sequence, and the queue is removed all    *)
(* the same.                                                               *)
(***************************************************************************)
C11_SharedFsReturnsTranslatable ==
    call.op = "get_shared_fs_devices" =>
        /\ pending_devices = None
        /\ call.ret = Ok(None) <=> ~call.pre.pending.some
        /\ (\A i \in DOMAIN FoundShareFs : TranslationOf(FoundShareFs[i]).ok) =>
              /\ call.ret.ok
              /\ call.ret.val.some <=> call.pre.pending.some
              /\ call.ret.val.some =>
                    /\ Len(call.ret.val.val) = Len(FoundShareFs)
                    /\ \A i \in DOMAIN FoundShareFs :
                          call.ret.val.val[i] = TranslationOf(FoundShareFs[i]).val
        /\ (\E i \in DOMAIN FoundShareFs : ~TranslationOf(FoundShareFs[i]).ok) =>
              /\ IsError(call.ret, "TryFromIntError")
              /\ \E i \in DOMAIN FoundShareFs : call.ret = TranslationOf(FoundShareFs[i])

\* of three queued requests, two share-fs ones with different translations
\* were returned and one of another kind was dropped
C11_Witness ==
    /\ call.op = "get_shared_fs_devices"
    /\ call.pre.pending.some
    /\ Len(call.pre.pending.val) = 3
    /\ call.ret.ok
    /\ call.ret.val.some
    /\ Len(call.ret.val.val) = 2
    /\ call.ret.val.val[1] # call.ret.val.val[2]

(***************************************************************************)
(* The PathBufs of the two boot files of Configs.                          *)
(***************************************************************************)
InitrdPath == <<"/", "boot", "initrd.img">>
ImagePath == <<"/", "boot", "vmlinuz">>

(***************************************************************************)
(* C12: every get_boot_file call returns the initrd path when initrd is    *)
(* not empty, else the image path when image is not empty, else the        *)
(* "missing boot file" error, and the "no hypervisor config" error when    *)
(* there is no configuration; the call changes neither the machine state   *)
(* nor the queue, and reaches neither a handler nor the VMM.               *)
(***************************************************************************)
C12_BootFilePreference ==
    [][(call'.op = "get_boot_file" /\ call' # call) =>
          /\ ~config.some => IsError(call'.ret, "no hypervisor config")
          /\ config.some =>
                LET boot_info == config.val.boot_info
                IN  /\ boot_info.initrd = Initrd => call'.ret = Ok(InitrdPath)
                    /\ (boot_info.initrd = <<"">> /\ boot_info.image = Image) =>
                          call'.ret = Ok(ImagePath)
                    /\ (boot_info.initrd = <<"">> /\ boot_info.image = <<"">>) =>
                          IsError(call'.ret, "missing boot file (no image or initrd)")
          /\ state' = state
          /\ pending_devices' = pending_devices
          /\ handled' = handled
          /\ vmm_calls' = vmm_calls
          /\ config' = config]_vars

\* with both files configured and requests queued, the initrd was returned
C12_Witness ==
    /\ call.op = "get_boot_file"
    /\ config = Some(HypervisorConfig(Initrd, Image))
    /\ call.ret = Ok(InitrdPath)
    /\ pending_devices.some
    /\ pending_devices = call.pre.pending

(***************************************************************************)
(* C13: get_pmem_devices returns, when get_boot_file gives a path, one     *)
(* device with that path as its file, discard_writes set, no size and no   *)
(* iommu; when get_boot_file fails, it returns the same error.             *)
(***************************************************************************)
C13_PmemFromBootFile ==
    call.op = "get_pmem_devices" =>
        LET boot == GetBootFile(config)
        IN  /\ boot.ok =>
                  /\ call.ret.ok
                  /\ call.ret.val.some
                  /\ Len(call.ret.val.val) = 1
                  /\ call.ret.val.val[1].file = boot.val
                  /\ call.ret.val.val[1].discard_writes = TRUE
                  /\ call.ret.val.val[1].size = None
                  /\ call.ret.val.val[1].iommu = FALSE
            /\ ~boot.ok => call.ret = Err(boot.err)

\* only the image is configured, and it became the one pmem device
C13_Witness ==
    /\ call.op = "get_pmem_devices"
    /\ config = Some(HypervisorConfig(<<"">>, Image))
    /\ call.ret.ok
    /\ call.ret.val.val[1].file = ImagePath

(***************************************************************************)
(* C14: a step that changes the machine state is the start of the machine, *)
(* NotReady to VmRunning, and is no call of this code; every call, whether *)
(* it returns Ok or Err, leaves the machine state as it was.               *)
(***************************************************************************)
C14_StateOnlyChangedOutside ==
    [][/\ state' # state =>
             (state = NotReady /\ state' = VmRunning /\ call' = call)
       /\ call' # call => state' = state]_vars

\* the machine is running and calls of this code have failed and succeeded
\* since it started
C14_Witness ==
    /\ state = VmRunning
    /\ call.pre.state = VmRunning
    /\ call.op = "get_pmem_devices"
    /\ ~call.ret.ok
    /\ Len(handled) >= 2
    /\ \E i \in DOMAIN handled : handled[i].res.ok
    /\ \E i \in DOMAIN handled : ~handled[i].res.ok

(***************************************************************************)
(* C15: remove_device returns Ok for every device in either machine state, *)
(* invokes no handler, makes no VMM call, and leaves the machine state and *)
(* the queue as they were; a queued request that was passed to             *)
(* remove_device is handed to the live attachment handler by a successful  *)
(* replay that follows.                                                    *)
(***************************************************************************)
C15_RemoveDeviceIsNoOp ==
    [][/\ (call'.op = "remove_device" /\ call' # call) =>
             /\ call'.ret = Ok(Unit)
             /\ state' = state
             /\ pending_devices' = pending_devices
             /\ handled' = handled
             /\ vmm_calls' = vmm_calls
       /\ (/\ call.op = "remove_device"
           /\ call.req.id # 0
           /\ call'.op = "handle_pending_devices_after_boot"
           /\ call'.pre.state = VmRunning
           /\ call'.ret.ok) =>
             \E i \in (Len(handled) + 1)..Len(handled') :
                 handled'[i].req = call.req]_vars

\* a queued request was passed to remove_device, the machine has started
\* since, and the request is still in the queue
C15_Witness ==
    /\ call.op = "remove_device"
    /\ call.req.id # 0
    /\ call.pre.state = NotReady
    /\ state = VmRunning
    /\ pending_devices.some
    /\ \E i \in DOMAIN pending_devices.val : pending_devices.val[i] = call.req

(***************************************************************************)
(* C16: add_device of a share-fs request while the machine is running      *)
(* calls cloud_hypervisor_vm_fs_add only if fs_type is "virtio-fs" and the *)
(* API socket is present; with another fs_type it returns the error naming *)
(* the type, with "virtio-fs" and no socket the "missing socket" error, in *)
(* both cases with no VMM call and the queue left as it was.               *)
(***************************************************************************)
C16_LiveShareFsChecks ==
    (/\ call.op = "add_device"
     /\ call.pre.state = VmRunning
     /\ call.req.dev.kind = "ShareFsDevice") =>
        LET cfg == call.req.dev.cfg
        IN  /\ NewCalls # <<>> => (cfg.fs_type = VIRTIO_FS /\ api_socket)
            /\ cfg.fs_type # VIRTIO_FS =>
                  /\ IsError(call.ret, "cannot handle share fs type")
                  /\ call.ret.err[1].about = cfg.fs_type
                  /\ NewCalls = <<>>
                  /\ pending_devices = call.pre.pending
            /\ (cfg.fs_type = VIRTIO_FS /\ ~api_socket) =>
                  /\ IsError(call.ret, "missing socket")
                  /\ NewCalls = <<>>
                  /\ pending_devices = call.pre.pending

\* a virtio-9p request was refused while running with the socket present,
\* after an earlier VMM call, with requests still queued
C16_Witness ==
    /\ call.op = "add_device"
    /\ call.pre.state = VmRunning
    /\ call.req.dev.kind = "ShareFsDevice"
    /\ call.req.dev.cfg.fs_type = "virtio-9p"
    /\ api_socket
    /\ IsError(call.ret, "cannot handle share fs type")
    /\ pending_devices.some
    /\ vmm_calls # <<>>

(***************************************************************************)
(* C17: FsConfig::try_from returns an error only for a queue_size above    *)
(* 65535: it returns a config for every queue_size up to 65535, and the    *)
(* queue_size of every config it returns is at most 65535.                 *)
(***************************************************************************)
C17_TryFromFailsOnlyOnOverflow ==
    fs_boot.some =>
        /\ ~fs_boot.val.ok =>
              (fs_in.cfg.queue_size > 65535 /\ IsError(fs_boot.val, "TryFromIntError"))
        /\ fs_in.cfg.queue_size <= 65535 => fs_boot.val.ok
        /\ fs_boot.val.ok => fs_boot.val.val.queue_size <= 65535

\* the conversion failed on 65536
C17_Witness ==
    /\ fs_boot.some
    /\ ~fs_boot.val.ok
    /\ fs_in.cfg.queue_num = 1
    /\ fs_in.cfg.queue_size = 65536

(***************************************************************************)
(* The two drains of the queue, seen in the state they leave.              *)
(***************************************************************************)
IdSet(requests) == {requests[i].id : i \in DOMAIN requests}

\* request r was in the queue that the last call, get_shared_fs_devices, took
DrainedBySharedFs(r) ==
    /\ call.op = "get_shared_fs_devices"
    /\ r \in IdSet(QueueOf(call.pre.pending))

\* request r was in the queue that the last call, a replay, took
TakenByReplay(r) ==
    /\ ReplayRan
    /\ r \in IdSet(QueueOf(call.pre.pending))

Attached(r) == \E i \in DOMAIN handled : handled[i].req.id = r

Queued(r) == r \in IdSet(QueueOf(pending_devices))

(***************************************************************************)
(* C18: a request that was in the queue when get_shared_fs_devices took it *)
(* is from then on never in the queue, never taken by a replay and never   *)
(* handed to the live attachment handler; a request that was in the queue  *)
(* when a replay took it is from then on never in the queue and never      *)
(* taken by get_shared_fs_devices; over every interleaving of add_device,  *)
(* get_shared_fs_devices, the start of the machine and the replay.         *)
(***************************************************************************)
C18_ConsumedByOneDrain ==
    \A r \in 1..MaxRequests :
        /\ [](DrainedBySharedFs(r) =>
                [](~Queued(r) /\ ~TakenByReplay(r) /\ ~Attached(r)))
        /\ [](TakenByReplay(r) =>
                [](~Queued(r) /\ ~DrainedBySharedFs(r)))

\* the first request went to get_shared_fs_devices, the two queued after it
\* to the one replay
C18_Witness ==
    /\ ReplayRan
    /\ call.ret.ok
    /\ call.pre.handled = 0
    /\ next_id = 3
    /\ IdsOf([i \in DOMAIN handled |-> handled[i].req]) = <<2, 3>>

(***************************************************************************)
(* C19: a share-fs request whose fs_type is not "virtio-fs" is refused     *)
(* with the fs_type error whenever it is handed to the live attachment     *)
(* handler, by add_device while running or by a replay, and the call that  *)
(* handed it over fails without a VMM call for it; the same request in the *)
(* queue is translated by get_shared_fs_devices like any other, and        *)
(* get_shared_fs_devices never fails with the fs_type error.               *)
(***************************************************************************)
NotVirtioFs(request) == IsShareFs(request) /\ request.dev.cfg.fs_type # VIRTIO_FS

C19_TypeCheckedOnLivePathOnly ==
    /\ \A i \in DOMAIN handled :
          NotVirtioFs(handled[i].req) =>
              /\ IsError(handled[i].res, "cannot handle share fs type")
              /\ handled[i].res.err[1].about = handled[i].req.dev.cfg.fs_type
    /\ (call.op \in {"add_device", "handle_pending_devices_after_boot"}) =>
          \A i \in DOMAIN NewHandled :
              NotVirtioFs(NewHandled[i].req) =>
                  /\ i = Len(NewHandled)
                  /\ ~call.ret.ok
                  /\ Len(NewCalls) <= Len(NewHandled) - 1
    /\ call.op = "get_shared_fs_devices" =>
          /\ ~call.ret.ok => IsError(call.ret, "TryFromIntError")
          /\ (call.ret.ok /\ call.ret.val.some) =>
                \A i \in DOMAIN FoundShareFs :
                    NotVirtioFs(FoundShareFs[i]) =>
                        /\ i \in DOMAIN call.ret.val.val
                        /\ TranslationOf(FoundShareFs[i]).ok
                        /\ call.ret.val.val[i] = TranslationOf(FoundShareFs[i]).val
                        /\ call.ret.val.val[i].num_queues =
                              FoundShareFs[i].dev.cfg.queue_num

\* a virtio-9p device was refused by the live handler, and the same device,
\* queued before the start, was translated by get_shared_fs_devices
C19_Witness ==
    /\ call.op = "get_shared_fs_devices"
    /\ call.ret.ok
    /\ call.ret.val.some
    /\ \E i \in DOMAIN FoundShareFs :
          /\ NotVirtioFs(FoundShareFs[i])
          /\ call.ret.val.val[i].num_queues = 4
          /\ call.ret.val.val[i].queue_size = 256
          /\ \E j \in DOMAIN handled :
                /\ handled[j].req.dev = FoundShareFs[i].dev
                /\ IsError(handled[j].res, "cannot handle share fs type")

(***************************************************************************)
(* C20: once a replay has run while the machine is running, the queue is   *)
(* absent from then on, whatever is called afterwards; and a replay that   *)
(* starts while the machine is running and the queue is absent returns Ok, *)
(* hands nothing to the live attachment handler, makes no VMM call and     *)
(* leaves the queue absent.                                                *)
(***************************************************************************)
C20_ReplayIdempotent ==
    /\ [](ReplayRan => [](pending_devices = None))
    /\ [][(/\ call'.op = "handle_pending_devices_after_boot"
           /\ call' # call
           /\ state = VmRunning
           /\ pending_devices = None) =>
              /\ call'.ret = Ok(Unit)
              /\ handled' = handled
              /\ vmm_calls' = vmm_calls
              /\ pending_devices' = None]_vars

\* three requests were queued, the first replay failed on the first of them
\* and dropped the other two, and the replay after it did nothing
C20_Witness ==
    /\ ReplayRan
    /\ ~call.pre.pending.some
    /\ call.ret = Ok(Unit)
    /\ next_id = 3
    /\ Len(handled) = 1
    /\ handled[1].req.id = 1
    /\ ~handled[1].res.ok
    /\ pending_devices = None

=============================================================================
